---- MODULE Spec2Model ----
(***************************************************************************)
(* Model of the collaborative whiteboard relay in src/src/index.ts: the    *)
(* in-memory room table, the HTTP room creation endpoint, the WebSocket    *)
(* connection, message and close handlers, broadcast and the inactivity    *)
(* check.  Node runs every handler to completion, so each handler is one   *)
(* atomic action.                                                          *)
(***************************************************************************)
EXTENDS Integers, Sequences, FiniteSets, TLC

\* ---------------------------------------------------------------- bounds
MaxOps == 3          \* inbound WebSocket messages handled in one behaviour
MaxTime == 1         \* clock steps the model lets pass

\* ------------------------------------------------------------- universe
Conns == {"c1", "c2"}
ConnOrder == [c \in Conns |-> IF c = "c1" THEN 1 ELSE 2]
RoomIds == {"r1", "r2"}
Usernames == {"ann"}
NoConn == "none"
NoRoomParam == "none"

\* the clock is sampled every 5 minutes: Date.now() after t steps, in ms
MsPerStep == 5 * 60 * 1000
DateNow(t) == t * MsPerStep

\* the inactivity threshold of checkAndDeleteRoom, in ms
ReapAfterMs == 5 * 60 * 1000

\* the strokes a draw payload can carry: empty (rejected) or not
StrokeLists == {<<>>, <<"p1">>}

VARIABLES rooms, conns, outbox, now, nops, lastEvent, running

vars == <<rooms, conns, outbox, now, nops, lastEvent, running>>

\* ------------------------------------------------------------- helpers
\* rooms[roomId] is truthy
RoomExists(rs, roomId) == roomId \in DOMAIN rs

\* rooms[roomId] = value
SetRoom(rs, roomId, value) ==
  [x \in (DOMAIN rs) \cup {roomId} |-> IF x = roomId THEN value ELSE rs[x]]

\* delete rooms[roomId]
DeleteRoom(rs, roomId) == [x \in (DOMAIN rs) \ {roomId} |-> rs[x]]

\* the room object create-room stores
NewRoom(t) ==
  [drawings |-> <<>>, history |-> <<(<<>>)>>, redoStack |-> <<>>,
   users |-> <<>>, startTime |-> t, aliases |-> {}]

\* array.pop(): the array without its last element
Pop(s) == SubSeq(s, 1, Len(s) - 1)

\* the element array.pop() returns
Top(s) == s[Len(s)]

\* array.pop() || []
PopOrEmpty(s) == IF Len(s) = 0 THEN <<>> ELSE Top(s)

\* users.filter(client => client !== ws)
RECURSIVE FilterOut(_, _)
FilterOut(users, ws) ==
  IF users = <<>> THEN <<>>
  ELSE IF Head(users) = ws THEN FilterOut(Tail(users), ws)
       ELSE <<Head(users)>> \o FilterOut(Tail(users), ws)

\* const { roomId, ...drawData } = eventData
DrawDataOf(eventData) == [strokes |-> eventData.strokes]

\* mutant: the message jumps the socket's queue
SendFirst(ob, client, message) == [ob EXCEPT ![client] = <<message>> \o @]

\* client.send(message): the message is queued on that client's socket
Send(ob, client, message) == [ob EXCEPT ![client] = Append(@, message)]

\* mutant: the readyState check is missing
IsOpenAlways(cs, client) == TRUE

\* client.readyState === WebSocket.OPEN
IsOpen(cs, client) == cs[client].state = "open"

\* mutant: the sender is not skipped
IsExcludedNever(client, currentUser) == FALSE

\* currentUser && client === currentUser
IsExcluded(client, currentUser) == currentUser # NoConn /\ client = currentUser

\* rooms[roomId].users.forEach(...) of broadcast, from index i on
RECURSIVE BroadcastFrom(_, _, _, _, _, _)
BroadcastFrom(users, i, cs, ob, message, currentUser) ==
  IF i > Len(users) THEN ob
  ELSE IF IsExcluded(users[i], currentUser)
       THEN BroadcastFrom(users, i + 1, cs, ob, message, currentUser)
       ELSE IF IsOpen(cs, users[i])
            THEN BroadcastFrom(users, i + 1, cs, Send(ob, users[i], message),
                               message, currentUser)
            ELSE BroadcastFrom(users, i + 1, cs, ob, message, currentUser)

\* mutant: the message goes to every socket of the server, whatever its room
broadcastToEverySocket(rs, cs, ob, roomId, message, currentUser) ==
  BroadcastFrom(<<"c1", "c2">>, 1, cs, ob, message, currentUser)

broadcast(rs, cs, ob, roomId, message, currentUser) ==
  BroadcastFrom(rs[roomId].users, 1, cs, ob, message, currentUser)

\* mutant: > for >=
ExpiredStrict(room, t) == DateNow(t) - room.startTime > ReapAfterMs

\* elapsedTime >= 5 * 60 * 1000, at clock step t
Expired(room, t) == DateNow(t) - room.startTime >= ReapAfterMs

\* mutant: the member count is not looked at
IsEmptyRoomAnyUsers(rs, roomId) == RoomExists(rs, roomId)

\* room && room.users.length === 0
IsEmptyRoom(rs, roomId) == RoomExists(rs, roomId) /\ Len(rs[roomId].users) = 0

checkAndDeleteRoom(rs, roomId, t) ==
  IF IsEmptyRoom(rs, roomId) /\ Expired(rs[roomId], t)
  THEN DeleteRoom(rs, roomId)
  ELSE rs

\* ------------------------------------------------- outbound envelopes
\* data is kept as a sequence in all three: the username, the drawData, or the
\* whole drawings array
UserJoinedMsg(username) ==
  [event |-> "user-joined", data |-> <<[username |-> username]>>]

DrawMsg(drawData) == [event |-> "draw", data |-> <<drawData>>]

UpdateCanvasMsg(drawings) == [event |-> "update-canvas", data |-> drawings]

\* --------------------------------------------------- room transitions
\* Arrays are objects: drawings names one array, and each entry of history and
\* redoStack is an array too.  room.aliases is the set of <<stack, index>>
\* positions whose entry is the very array drawings names, so that a push onto
\* drawings in place also shows in those entries.

\* mutant: the array itself is stored, not a copy
SameArray(arr) == [items |-> arr, same |-> TRUE]

\* [...arr]: a new array with the same elements
Copy(arr) == [items |-> arr, same |-> FALSE]

\* rooms[roomId][stack].push(snap)
PushSnapshot(room, stack, snap) ==
  [room EXCEPT ![stack] = Append(@, snap.items),
               !.aliases = IF snap.same
                           THEN @ \cup {<<stack, Len(room[stack]) + 1>>}
                           ELSE @]

\* what the array at <<stack, i>> holds after drawings.push(x)
AfterPush(room, stack, i, x) ==
  IF <<stack, i>> \in room.aliases
  THEN Append(room[stack][i], x)
  ELSE room[stack][i]

\* rooms[roomId].drawings.push(x), in place
PushInPlace(room, x) ==
  [room EXCEPT !.drawings = Append(@, x),
               !.history = [i \in 1..Len(@) |-> AfterPush(room, "history", i, x)],
               !.redoStack = [i \in 1..Len(@) |-> AfterPush(room, "redoStack", i, x)]]

\* rooms[roomId].drawings = rooms[roomId][stack].pop() || []
TakeTop(room, stack) ==
  LET top == <<stack, Len(room[stack])>>
  IN [room EXCEPT !.drawings = PopOrEmpty(room[stack]),
                  ![stack] = Pop(@),
                  !.aliases = IF top \in @ THEN @ \ {top} ELSE {}]

\* rooms[roomId].redoStack = []
ResetRedoStack(room) ==
  [room EXCEPT !.redoStack = <<>>,
               !.aliases = {a \in @ : a[1] # "redoStack"}]

\* mutant: the draw branch leaves redoStack as it is
DrawRoomKeepsRedo(room, drawData) ==
  LET pushed == PushInPlace(room, drawData)
  IN PushSnapshot(pushed, "history", Copy(pushed.drawings))

\* the draw branch's three mutations
DrawRoom(room, drawData) ==
  LET pushed == PushInPlace(room, drawData)
  IN ResetRedoStack(PushSnapshot(pushed, "history", Copy(pushed.drawings)))

\* mutant: >= 1 for > 1
CanUndoBaseline(room) == Len(room.history) >= 1

\* mutant: the length check is missing
CanUndoAlways(room) == TRUE

\* rooms[roomId].history.length > 1
CanUndo(room) == Len(room.history) > 1

UndoRoom(room) ==
  TakeTop(PushSnapshot(room, "redoStack", Copy(room.drawings)), "history")

\* mutant: the length check is missing
CanRedoAlways(room) == TRUE

\* rooms[roomId].redoStack.length > 0
CanRedo(room) == Len(room.redoStack) > 0

\* mutant: the redo branch does not push drawings back onto history
RedoRoomNoHistory(room) == TakeTop(room, "redoStack")

RedoRoom(room) ==
  TakeTop(PushSnapshot(room, "history", Copy(room.drawings)), "redoStack")

ClearRoom(room) ==
  LET saved == ResetRedoStack(PushSnapshot(room, "history", Copy(room.drawings)))
  IN [saved EXCEPT !.drawings = <<>>, !.aliases = {}]

\* rooms[roomId].users.push(ws)
JoinUsers(room, ws) == [room EXCEPT !.users = Append(room.users, ws)]

\* --------------------------------------------------------- bookkeeping
\* lastEvent records the handler that ran in the previous step: its kind, the
\* room identifier it looked up, whether its mutating branch ran, and, for an
\* applied draw or undo, the room as the handler found it
Blank == [drawings |-> <<>>, history |-> <<>>, redoStack |-> <<>>,
          users |-> <<>>, startTime |-> 0, aliases |-> {}]

NoEvent == [kind |-> "none", room |-> NoRoomParam, applied |-> FALSE, pre |-> Blank]

Event(kind, roomId, applied) ==
  [kind |-> kind, room |-> roomId, applied |-> applied,
   pre |-> IF applied /\ kind \in {"draw", "undo"} THEN rooms[roomId] ELSE Blank]

Init ==
  /\ rooms = <<>>
  /\ conns = [c \in Conns |-> [state |-> "new", room |-> NoRoomParam]]
  /\ outbox = [c \in Conns |-> <<>>]
  /\ now = 0
  /\ nops = 0
  /\ lastEvent = NoEvent
  /\ running = TRUE

\* ------------------------------------------------------------- actions
\* Date.now() moves on
Tick ==
  /\ running
  /\ now < MaxTime
  /\ now' = now + 1
  /\ lastEvent' = NoEvent
  /\ UNCHANGED <<rooms, conns, outbox, nops, running>>

\* POST /create-room; generateRoomId() returns any identifier
CreateRoom(roomId) ==
  /\ running
  /\ rooms' = SetRoom(rooms, roomId, NewRoom(DateNow(now)))
  /\ lastEvent' = Event("create-room", roomId, TRUE)
  /\ UNCHANGED <<conns, outbox, now, nops, running>>

\* sockets are fresh objects, named in the order they connect
IsNextConn(c) == \A d \in Conns : ConnOrder[d] < ConnOrder[c] => conns[d].state # "new"

\* wss.on('connection'): a socket without ?room= is closed and gets no handlers
Connect(c, q) ==
  /\ running
  /\ conns[c].state = "new"
  /\ IsNextConn(c)
  /\ conns' = [conns EXCEPT ![c] =
                 [state |-> IF q = NoRoomParam THEN "refused" ELSE "open",
                  room |-> q]]
  /\ lastEvent' = NoEvent
  /\ UNCHANGED <<rooms, outbox, now, nops, running>>

\* an inbound message reaches the handler of an open socket of a live process
CanReceive(c) == running /\ conns[c].state = "open"

\* every message handled uses up one of the MaxOps
Budget == nops < MaxOps /\ nops' = nops + 1

\* mutant: a handler that finds no room creates it
IgnoredCreatesRoom(kind, roomId) ==
  /\ Budget
  /\ lastEvent' = Event(kind, roomId, FALSE)
  /\ rooms' = IF RoomExists(rooms, roomId)
              THEN rooms
              ELSE SetRoom(rooms, roomId, NewRoom(DateNow(now)))
  /\ UNCHANGED outbox

\* a handler that returns without changing anything
Ignored(kind, roomId) ==
  /\ Budget
  /\ lastEvent' = Event(kind, roomId, FALSE)
  /\ UNCHANGED <<rooms, outbox>>

JoinRoom(c, roomId, username) ==
  /\ CanReceive(c)
  /\ IF RoomExists(rooms, roomId)
     THEN LET rs == SetRoom(rooms, roomId, JoinUsers(rooms[roomId], c))
          IN /\ Budget
             /\ rooms' = rs
             /\ outbox' = broadcast(rs, conns, outbox, roomId,
                                    UserJoinedMsg(username), c)
             /\ lastEvent' = Event("join-room", roomId, TRUE)
     ELSE Ignored("join-room", roomId)
  /\ UNCHANGED <<conns, now, running>>

\* mutant: the strokes check is missing
HasStrokesAlways(drawData) == TRUE

\* drawData.strokes.length === 0 returns early
HasStrokes(drawData) == Len(drawData.strokes) # 0

Draw(c, roomId, strokes) ==
  /\ CanReceive(c)
  /\ LET drawData == DrawDataOf([roomId |-> roomId, strokes |-> strokes])
     IN IF RoomExists(rooms, roomId) /\ HasStrokes(drawData)
        THEN LET rs == SetRoom(rooms, roomId, DrawRoom(rooms[roomId], drawData))
             IN /\ Budget
                /\ rooms' = rs
                /\ outbox' = broadcast(rs, conns, outbox, roomId,
                                       DrawMsg(drawData), c)
                /\ lastEvent' = Event("draw", roomId, TRUE)
        ELSE Ignored("draw", roomId)
  /\ UNCHANGED <<conns, now, running>>

Undo(c) ==
  /\ CanReceive(c)
  /\ LET roomId == conns[c].room
     IN IF RoomExists(rooms, roomId) /\ CanUndo(rooms[roomId])
        THEN LET rs == SetRoom(rooms, roomId, UndoRoom(rooms[roomId]))
             IN /\ Budget
                /\ rooms' = rs
                /\ outbox' = broadcast(rs, conns, outbox, roomId,
                                UpdateCanvasMsg(rs[roomId].drawings), NoConn)
                /\ lastEvent' = Event("undo", roomId, TRUE)
        ELSE Ignored("undo", roomId)
  /\ UNCHANGED <<conns, now, running>>

Redo(c) ==
  /\ CanReceive(c)
  /\ LET roomId == conns[c].room
     IN IF RoomExists(rooms, roomId) /\ CanRedo(rooms[roomId])
        THEN LET rs == SetRoom(rooms, roomId, RedoRoom(rooms[roomId]))
             IN /\ Budget
                /\ rooms' = rs
                /\ outbox' = broadcast(rs, conns, outbox, roomId,
                                UpdateCanvasMsg(rs[roomId].drawings), NoConn)
                /\ lastEvent' = Event("redo", roomId, TRUE)
        ELSE Ignored("redo", roomId)
  /\ UNCHANGED <<conns, now, running>>

Clear(c) ==
  /\ CanReceive(c)
  /\ LET roomId == conns[c].room
     IN IF RoomExists(rooms, roomId)
        THEN LET rs == SetRoom(rooms, roomId, ClearRoom(rooms[roomId]))
             IN /\ Budget
                /\ rooms' = rs
                /\ outbox' = broadcast(rs, conns, outbox, roomId,
                                UpdateCanvasMsg(rs[roomId].drawings), NoConn)
                /\ lastEvent' = Event("clear", roomId, TRUE)
        ELSE Ignored("clear", roomId)
  /\ UNCHANGED <<conns, now, running>>

\* an exception thrown inside the message listener: nothing catches it, no
\* uncaughtException handler is installed, and the process exits with the
\* rooms table and every socket it held
Throw ==
  /\ Budget
  /\ running' = FALSE
  /\ lastEvent' = Event("malformed", NoRoomParam, FALSE)
  /\ UNCHANGED <<rooms, outbox>>

\* a message that is not JSON: JSON.parse(data) throws
BadEnvelope(c) ==
  /\ CanReceive(c)
  /\ Throw
  /\ UNCHANGED <<conns, now>>

\* a draw whose payload has no strokes field: drawData.strokes is undefined
\* and reading its length throws, once the room lookup has succeeded
DrawNoStrokes(c, roomId) ==
  /\ CanReceive(c)
  /\ IF RoomExists(rooms, roomId)
     THEN Throw
     ELSE Ignored("draw", roomId) /\ UNCHANGED running
  /\ UNCHANGED <<conns, now>>

\* users.filter(...) of the close handler
LeaveRoom(room, ws) == [room EXCEPT !.users = FilterOut(@, ws)]

\* ws.on('close'): the socket's readyState is CLOSED when the handler runs
Close(c) ==
  /\ running
  /\ conns[c].state = "open"
  /\ conns' = [conns EXCEPT ![c].state = "closed"]
  /\ lastEvent' = Event("close", conns[c].room, RoomExists(rooms, conns[c].room))
  /\ LET roomId == conns[c].room
     IN IF RoomExists(rooms, roomId)
        THEN rooms' = checkAndDeleteRoom(
                        SetRoom(rooms, roomId, LeaveRoom(rooms[roomId], c)),
                        roomId, now)
        ELSE UNCHANGED rooms
  /\ UNCHANGED <<outbox, now, nops, running>>

Next ==
  \/ Tick
  \/ \E roomId \in RoomIds : CreateRoom(roomId)
  \/ \E c \in Conns, q \in RoomIds \cup {NoRoomParam} : Connect(c, q)
  \/ \E c \in Conns, roomId \in RoomIds, u \in Usernames : JoinRoom(c, roomId, u)
  \/ \E c \in Conns, roomId \in RoomIds, s \in StrokeLists : Draw(c, roomId, s)
  \/ \E c \in Conns : Undo(c)
  \/ \E c \in Conns : Redo(c)
  \/ \E c \in Conns : Clear(c)
  \/ \E c \in Conns : BadEnvelope(c)
  \/ \E c \in Conns, roomId \in RoomIds : DrawNoStrokes(c, roomId)
  \/ \E c \in Conns : Close(c)

Spec == Init /\ [][Next]_vars

\* ============================================================== claims
\* the messages the step queued for connection c
Sent(c) == SubSeq(outbox'[c], Len(outbox[c]) + 1, Len(outbox'[c]))

IsMember(room, c) == \E i \in 1..Len(room.users) : room.users[i] = c

\* the connection whose close handler the step ran
Closing(c) == conns[c].state = "open" /\ conns'[c].state = "closed"

\* every message of the sequence is m
AllAre(msgs, m) == \A i \in 1..Len(msgs) : msgs[i] = m

\* C1: a draw followed immediately by an undo on the same room leaves drawings
\* as they were before the draw, and the undo's update-canvas carries them
DrawThenUndoRestores ==
  [][(/\ lastEvent.kind = "draw" /\ lastEvent.applied
      /\ lastEvent'.kind = "undo" /\ lastEvent'.applied
      /\ lastEvent'.room = lastEvent.room)
     => /\ rooms'[lastEvent.room].drawings = lastEvent.pre.drawings
        /\ \A c \in Conns :
             AllAre(Sent(c), UpdateCanvasMsg(lastEvent.pre.drawings))]_vars

\* C2: every live room's history holds at least one snapshot
HistoryNeverEmpty == \A r \in DOMAIN rooms : Len(rooms[r].history) >= 1

\* C2 witness: an undo has just brought a history back to its baseline entry
UndoneToBaseline ==
  /\ lastEvent.kind = "undo" /\ lastEvent.applied
  /\ RoomExists(rooms, lastEvent.room)
  /\ Len(rooms[lastEvent.room].history) = 1

\* C3: create-room hands out an identifier no live room has and leaves every
\* live room as it was
CreateRoomNeverOverwrites ==
  [][lastEvent'.kind = "create-room"
     => /\ ~RoomExists(rooms, lastEvent'.room)
        /\ \A r \in DOMAIN rooms : rooms'[r] = rooms[r]]_vars

\* C4: a connection whose close handler has run is a member of no room
ClosedConnIsNoMember ==
  \A c \in Conns : conns[c].state = "closed"
     => \A r \in DOMAIN rooms : ~IsMember(rooms[r], c)

\* C5: one handled event queues at most one message for any connection
AtMostOncePerEvent ==
  [][\A c \in Conns : Len(outbox'[c]) <= Len(outbox[c]) + 1]_vars

\* C6: a room is removed only by a close handler, and only when the closing
\* connection was its every member, so that the list is empty at the check
ReapOnlyEmptyRoom ==
  [][\A r \in DOMAIN rooms :
       (~RoomExists(rooms', r))
       => \E c \in Conns :
            /\ Closing(c)
            /\ \A i \in 1..Len(rooms[r].users) : rooms[r].users[i] = c]_vars

\* C6 witness: a close handler has checked a room that is past the threshold
\* and still has a member, and the room is still there
ExpiredRoomWithMemberKept ==
  /\ lastEvent.kind = "close" /\ lastEvent.applied
  /\ RoomExists(rooms, lastEvent.room)
  /\ Len(rooms[lastEvent.room].users) > 0
  /\ DateNow(now) - rooms[lastEvent.room].startTime >= 5 * 60 * 1000

\* C7: a close handler that leaves its room without members removes it exactly
\* when 5 minutes have passed since startTime, and an absent identifier stays
\* absent until create-room stores it again
ReapFloor ==
  [][/\ \A c \in Conns :
          LET r == conns[c].room
          IN (/\ Closing(c)
              /\ RoomExists(rooms, r)
              /\ \A i \in 1..Len(rooms[r].users) : rooms[r].users[i] = c)
             => ((~RoomExists(rooms', r))
                   <=> DateNow(now) - rooms[r].startTime >= 5 * 60 * 1000)
     /\ \A r \in RoomIds :
          (~RoomExists(rooms, r) /\ RoomExists(rooms', r))
          => (lastEvent'.kind = "create-room" /\ lastEvent'.room = r)]_vars

\* C7 witness: a close handler has just removed its room
RoomReaped ==
  /\ lastEvent.kind = "close" /\ lastEvent.applied
  /\ ~RoomExists(rooms, lastEvent.room)

UndoAtBaselineIsNoOp ==
  [][(/\ lastEvent'.kind = "undo"
      /\ RoomExists(rooms, lastEvent'.room)
      /\ Len(rooms[lastEvent'.room].history) = 1)
     => (rooms' = rooms /\ outbox' = outbox)]_vars

\* C10 witness: an undo has just been ignored in a room that has a member and
\* a one-entry history
UndoIgnoredAtBaseline ==
  /\ lastEvent.kind = "undo" /\ ~lastEvent.applied
  /\ RoomExists(rooms, lastEvent.room)
  /\ Len(rooms[lastEvent.room].history) = 1
  /\ Len(rooms[lastEvent.room].users) > 0

\* C11: a redo that finds a room whose redoStack is empty changes no room and
\* queues no message
RedoOnEmptyStackIsNoOp ==
  [][(/\ lastEvent'.kind = "redo"
      /\ RoomExists(rooms, lastEvent'.room)
      /\ Len(rooms[lastEvent'.room].redoStack) = 0)
     => (rooms' = rooms /\ outbox' = outbox)]_vars

\* C11 witness: a redo has just been ignored in a room that has a member, a
\* drawing and an empty redoStack
RedoIgnoredOnEmptyStack ==
  /\ lastEvent.kind = "redo" /\ ~lastEvent.applied
  /\ RoomExists(rooms, lastEvent.room)
  /\ Len(rooms[lastEvent.room].redoStack) = 0
  /\ Len(rooms[lastEvent.room].drawings) > 0
  /\ Len(rooms[lastEvent.room].users) > 0

\* C12: an applied draw or clear leaves the room's redoStack empty, and a redo
\* handled in the very next step for that room changes no room and queues no
\* message
EditEmptiesRedoStack ==
  [][/\ (lastEvent'.kind \in {"draw", "clear"} /\ lastEvent'.applied)
          => /\ rooms'[lastEvent'.room].redoStack = <<>>
             /\ ~CanRedo(rooms'[lastEvent'.room])
     /\ (/\ lastEvent.kind \in {"draw", "clear"} /\ lastEvent.applied
         /\ lastEvent'.kind = "redo" /\ lastEvent'.room = lastEvent.room)
          => (rooms' = rooms /\ outbox' = outbox)]_vars

\* C12 witness: a draw has just been applied to a room whose redoStack held a
\* snapshot from an earlier undo, and the redoStack is now empty
DrawDroppedRedoStack ==
  /\ lastEvent.kind = "draw" /\ lastEvent.applied
  /\ Len(lastEvent.pre.redoStack) > 0
  /\ rooms[lastEvent.room].redoStack = <<>>

\* C13: a draw whose strokes list is empty changes no room and queues no message
EmptyStrokesDrawIsNoOp ==
  [][lastEvent'.kind = "draw"
     => \A c \in Conns :
          Draw(c, lastEvent'.room, <<>>) => (rooms' = rooms /\ outbox' = outbox)]_vars

\* C13 witness: a draw has just been ignored although its room exists and has
\* a member, which is the case of the empty strokes list
EmptyStrokesDrawIgnored ==
  /\ lastEvent.kind = "draw" /\ ~lastEvent.applied
  /\ RoomExists(rooms, lastEvent.room)
  /\ Len(rooms[lastEvent.room].users) > 0

\* C14: a join-room, draw, undo, redo, clear or close handled for an identifier
\* that has no room creates no room, changes no room and queues no message
EventForAbsentRoomIsNoOp ==
  [][(/\ lastEvent'.kind \in {"join-room", "draw", "undo", "redo", "clear", "close"}
      /\ ~RoomExists(rooms, lastEvent'.room))
     => (rooms' = rooms /\ outbox' = outbox)]_vars

\* C14 witness: a message has just been ignored for an identifier that has no
\* room, after the clock passed the threshold and the close handler, with its
\* reap check, ran for a connection opened on that identifier
EventIgnoredAfterReap ==
  /\ lastEvent.kind \in {"join-room", "draw", "undo", "redo", "clear"}
  /\ ~lastEvent.applied
  /\ ~RoomExists(rooms, lastEvent.room)
  /\ DateNow(now) >= ReapAfterMs
  /\ \E c \in Conns : conns[c].state = "closed" /\ conns[c].room = lastEvent.room

\* C15: after a malformed message (an envelope that does not parse, or a draw
\* payload without a strokes field) the process is still running, with its
\* rooms and its other connections
MalformedMessageIsSurvived == lastEvent.kind = "malformed" => running

\* C16: an applied undo leaves the drawings it found on top of redoStack, the
\* history one entry shorter, and drawings equal to the new top of history,
\* which is also what each update-canvas it queues carries
UndoShowsNewTopOfHistory ==
  [][(lastEvent'.kind = "undo" /\ lastEvent'.applied)
     => LET roomId == lastEvent'.room
            after == rooms'[roomId]
        IN /\ Top(after.redoStack) = rooms[roomId].drawings
           /\ Len(after.history) = Len(rooms[roomId].history) - 1
           /\ after.drawings = Top(after.history)
           /\ \A c \in Conns : AllAre(Sent(c), UpdateCanvasMsg(Top(after.history)))]_vars

ClosedMembersAreSkipped ==
  [][/\ \A d \in Conns : conns[d].state # "open" => outbox'[d] = outbox[d]
     /\ (lastEvent'.applied /\ lastEvent'.kind \in {"undo", "redo", "clear"})
          => \A d \in Conns :
               (IsMember(rooms'[lastEvent'.room], d) /\ conns[d].state = "open")
                 => Len(Sent(d)) > 0
     /\ (lastEvent'.applied /\ lastEvent'.kind \in {"join-room", "draw"})
          => \A d \in Conns :
               (/\ IsMember(rooms'[lastEvent'.room], d)
                /\ conns[d].state = "open"
                /\ Len(Sent(d)) = 0)
                 => \/ \E u \in Usernames : JoinRoom(d, lastEvent'.room, u)
                    \/ \E s \in StrokeLists : Draw(d, lastEvent'.room, s)]_vars

\* C18 witness: an undo, redo or clear has just been applied to a room whose
\* member list holds a closed connection ahead of an open one; the open one
\* holds a message and the closed one holds none
OpenMemberServedPastClosedOne ==
  /\ lastEvent.applied /\ lastEvent.kind \in {"undo", "redo", "clear"}
  /\ LET users == rooms[lastEvent.room].users
     IN \E i, j \in 1..Len(users) :
          /\ i < j
          /\ conns[users[i]].state = "closed" /\ outbox[users[i]] = <<>>
          /\ conns[users[j]].state = "open" /\ Len(outbox[users[j]]) > 0

\* C19: an applied draw, undo, redo or clear changes no entry that stays on
\* history or on redoStack: every position both the old and the new stack have
\* holds the same snapshot before and after, and no entry is the array that
\* drawings names
StoredSnapshotsAreFrozen ==
  [][(lastEvent'.applied /\ lastEvent'.kind \in {"draw", "undo", "redo", "clear"})
     => LET before == rooms[lastEvent'.room]
            after == rooms'[lastEvent'.room]
        IN /\ \A i \in 1..Len(before.history) :
                i <= Len(after.history) => after.history[i] = before.history[i]
           /\ \A i \in 1..Len(before.redoStack) :
                i <= Len(after.redoStack) => after.redoStack[i] = before.redoStack[i]
           /\ after.aliases = {}]_vars

\* C19 witness: a draw has just pushed onto the array an undo took off history,
\* while history and redoStack still held entries
DrawOntoRestoredArray ==
  /\ lastEvent.kind = "draw" /\ lastEvent.applied
  /\ Len(lastEvent.pre.redoStack) > 0
  /\ Len(lastEvent.pre.drawings) > 0
  /\ Len(rooms[lastEvent.room].drawings) > Len(lastEvent.pre.drawings)
  /\ Len(rooms[lastEvent.room].history) > 1

\* C20: a join-room, draw, undo, redo, clear or close handled for one room
\* identifier, reap check included, leaves every other room present or absent
\* as it was and with the same drawings, history, redoStack and members, and
\* queues messages only for members of the room it was handled for
RoomsAreIndependent ==
  [][lastEvent'.kind \in {"join-room", "draw", "undo", "redo", "clear", "close"}
     => /\ \A other \in RoomIds \ {lastEvent'.room} :
             /\ RoomExists(rooms', other) = RoomExists(rooms, other)
             /\ RoomExists(rooms, other) => rooms'[other] = rooms[other]
        /\ \A d \in Conns :
             Len(Sent(d)) > 0
               => /\ RoomExists(rooms', lastEvent'.room)
                  /\ IsMember(rooms'[lastEvent'.room], d)]_vars

\* C20 witness: a clear has just been applied to one room and a member of it
\* holds the message, while another room exists whose open member, no member
\* of the first room, holds no message
OtherRoomHeardNothing ==
  /\ lastEvent.kind = "clear" /\ lastEvent.applied
  /\ \E c \in Conns :
       IsMember(rooms[lastEvent.room], c) /\ Len(outbox[c]) > 0
  /\ \E other \in RoomIds \ {lastEvent.room} :
       /\ RoomExists(rooms, other)
       /\ \E d \in Conns :
            /\ IsMember(rooms[other], d)
            /\ ~IsMember(rooms[lastEvent.room], d)
            /\ conns[d].state = "open"
            /\ outbox[d] = <<>>

====
